---------------------------- MODULE Spec2Model ----------------------------
(***************************************************************************)
(* Student-Expenditure-Tracker: the server's token gate, the two protected *)
(* endpoints (generate-report, generate-insights), the statistics and the  *)
(* fallback summary they compute, and report rendering.                    *)
(*                                                                         *)
(* Money is counted in cents (12.50 is 1250).  The repository holds three  *)
(* builds of the server, which differ in generate-insights:                *)
(*   "v1"  src/unnamed/part_000 lines 1-118   (no validation, 500 on error)*)
(*   "v2"  src/server/index.js                (validation, 500 on error)   *)
(*   "v3"  src/unnamed/part_000 lines 119-426 (validation, fallback)       *)
(***************************************************************************)
EXTENDS Integers, Sequences, FiniteSets, Bags, TLC

VARIABLES
    variant,     \* which build of the server is running
    runtime,     \* what the platform does with a rejected handler promise
    nodeEnv,     \* process.env.NODE_ENV
    serverUp,    \* the node process is alive
    pc,          \* per request: where its middleware/handler chain stands
    req,         \* per request: endpoint, Authorization header, body
    authReply,   \* per request: what supabase.auth.getUser answered
    aiReply,     \* per request: what model.generateContent answered
    user,        \* per request: req.user
    handlerRan,  \* per request: the route handler's body was entered
    calls,       \* per request: the outbound calls made and completed, in order
    resp,        \* per request: the response sent
    stage,       \* pure-function runs: which function was applied
    input,       \* pure-function runs: the arguments
    output,      \* pure-function runs: the result
    transactionsTable,  \* the backend's table `transactions`
    budgetsTable,       \* the backend's table `budgets`, a bag of rows
    budgetKey,          \* `budgets` has a unique key on (user_id, month, year)
    lastOp,             \* the last statement run on `transactions` and its effect
    tab,                \* per browser tab: where its handleBudgetSubmit stands
    lastBudget,         \* per (user, month): the amount last upserted with success
    dash,               \* the Dashboard component: its state and fetches in flight
    reports,            \* the Reports component: its state and calls in flight
    page,               \* the Transactions component: its forms and its submits
    auth                \* AuthProvider and the router: session, user, route shown

vars == <<variant, runtime, nodeEnv, serverUp, pc, req, authReply, aiReply, user,
          handlerRan, calls, resp, stage, input, output, transactionsTable,
          budgetsTable, budgetKey, lastOp, tab, lastBudget, dash,
          reports, page, auth>>

serverVars == <<variant, runtime, nodeEnv, serverUp, pc, req, authReply, aiReply,
                user, handlerRan, calls, resp>>

pureVars == <<stage, input, output>>

dataVars == <<transactionsTable, budgetsTable, budgetKey, lastOp, tab, lastBudget>>

clientVars == <<dash, reports, page, auth>>

-----------------------------------------------------------------------------
(* Bounds *)

\* longest transaction list of a pure-function run
MaxTx == 4

\* longest transaction list in a request body
MaxBodyTx == 1

\* requests in flight at once
NumReqs == 2

\* rows the table `transactions` can hold
MaxRows == 2

\* browser tabs submitting budgets at once
NumTabs == 2

\* rows the table `budgets` can hold
MaxBudgetRows == 5

\* longest list a Dashboard fetch returns
MaxDashTx == 2

\* fetches of one kind a page has in flight at a time
MaxFetches == 2

\* transactions one Transactions page adds
MaxInserts == 1

\* auth events not yet delivered to the listener
MaxEvents == 2

\* longest transaction list a prompt is built from
MaxPromptTx == 22

-----------------------------------------------------------------------------
(* JavaScript values *)

Undefined == "undefined"

Min(a, b) == IF a < b THEN a ELSE b

\* dates: absent, a string Date cannot parse, or a day (days since a Sunday)
NoDate == [kind |-> "none", day |-> 0]

BadDate == [kind |-> "invalid", day |-> 0]

Day(d) == [kind |-> "valid", day |-> d]

\* a well-formed transaction snapshot
Tx(amount, category, categoryName, date, description) ==
    [kind |-> "object", amount |-> amount, category |-> category,
     category_name |-> categoryName, date |-> date, description |-> description]

\* a null element of the transactions array
NullTx ==
    [kind |-> "null", amount |-> 0, category |-> Undefined,
     category_name |-> Undefined, date |-> NoDate, description |-> Undefined]

\* the sequences over S of length 0..n
SeqUpTo(S, n) == UNION {[1..k -> S] : k \in 0..n}

RECURSIVE SumAmounts(_)
\* the mathematical sum of the amounts of a list
SumAmounts(txs) ==
    IF txs = <<>> THEN 0 ELSE txs[1].amount + SumAmounts(Tail(txs))

-----------------------------------------------------------------------------
(* Number.prototype.toFixed *)

DigitChars == <<"0", "1", "2", "3", "4", "5", "6", "7", "8", "9">>

RECURSIVE Digits(_)
\* the decimal digits of a natural number, most significant first
Digits(n) ==
    IF n < 10 THEN <<DigitChars[n + 1]>>
    ELSE Digits(n \div 10) \o <<DigitChars[(n % 10) + 1]>>

\* (cents / 100).toFixed(2), cents >= 0: "52.50" is <<"5","2",".","5","0">>
ToFixed2(cents) ==
    Digits(cents \div 100) \o <<".">> \o
    <<DigitChars[((cents % 100) \div 10) + 1], DigitChars[(cents % 10) + 1]>>

\* the share in tenths of a percent, cut off after the first decimal
ShareTenthsTruncated(amt, total) == (1000 * amt) \div total

\* ((amt / total) * 100).toFixed(1), 0 <= amt, 0 < total: the share in tenths of
\* a percent, rounded to the nearest
ShareTenths(amt, total) == (2000 * amt + total) \div (2 * total)

ToFixed1Share(amt, total) ==
    Digits(ShareTenths(amt, total) \div 10) \o <<".">> \o
    <<DigitChars[(ShareTenths(amt, total) % 10) + 1]>>

-----------------------------------------------------------------------------
(* A plain object used as a map from category to sum: `const categories = {}` *)
(* An object is modelled by its own properties in creation order.             *)

\* keys that are canonical array indices, with their numeric value
IndexKeys == {"7", "10"}

IndexVal(k) == IF k = "7" THEN 7 ELSE IF k = "10" THEN 10 ELSE 0 - 1

HasOwn(obj, k) == \E i \in 1..Len(obj) : obj[i][1] = k

\* t.category || t.category_name || 'Other'
CategoryKey(t) ==
    IF t.category # Undefined THEN t.category
    ELSE IF t.category_name # Undefined THEN t.category_name
    ELSE "Other"

\* the categories of a list, and the sum of one category's amounts
CategoriesOf(items) == {CategoryKey(items[i]) : i \in 1..Len(items)}

CategorySum(items, c) == SumAmounts(SelectSeq(items, LAMBDA t : CategoryKey(t) = c))

\* obj[k] = (obj[k] || 0) + amount.  For k = "__proto__" the read yields
\* Object.prototype (truthy), the sum is a string, and the write goes to the
\* prototype setter, which ignores a non-object: no own property is created.
ObjAdd(obj, k, amount) ==
    IF k = "__proto__" THEN obj
    ELSE IF HasOwn(obj, k)
    THEN [i \in 1..Len(obj) |->
             IF obj[i][1] = k THEN <<k, obj[i][2] + amount>> ELSE obj[i]]
    ELSE Append(obj, <<k, amount>>)

RECURSIVE InsertByIndex(_, _)
InsertByIndex(sorted, e) ==
    IF sorted = <<>> THEN <<e>>
    ELSE IF IndexVal(e[1]) < IndexVal(sorted[1][1]) THEN <<e>> \o sorted
    ELSE <<sorted[1]>> \o InsertByIndex(Tail(sorted), e)

RECURSIVE SortByIndex(_)
SortByIndex(s) ==
    IF s = <<>> THEN <<>>
    ELSE InsertByIndex(SortByIndex(SubSeq(s, 1, Len(s) - 1)), s[Len(s)])

\* an enumeration in creation order for every key
ObjectEntriesInCreationOrder(obj) == obj

\* Object.entries(obj): index keys in ascending numeric order, then the other
\* string keys in creation order
ObjectEntries(obj) ==
    SortByIndex(SelectSeq(obj, LAMBDA e : e[1] \in IndexKeys)) \o
    SelectSeq(obj, LAMBDA e : e[1] \notin IndexKeys)

RECURSIVE InsertDesc(_, _)
\* e goes after every element whose sum is >= its own (the sort is stable)
InsertDesc(sorted, e) ==
    IF sorted = <<>> THEN <<e>>
    ELSE IF sorted[1][2] >= e[2] THEN <<sorted[1]>> \o InsertDesc(Tail(sorted), e)
    ELSE <<e>> \o sorted

RECURSIVE SortDescBySum(_)
\* entries.sort((a, b) => b[1] - a[1])
SortDescBySum(s) ==
    IF s = <<>> THEN <<>>
    ELSE InsertDesc(SortDescBySum(SubSeq(s, 1, Len(s) - 1)), s[Len(s)])

\* entries.slice(0, n)
Slice0(s, n) == SubSeq(s, 1, Min(n, Len(s)))


-----------------------------------------------------------------------------
(* The `transactions` field of a request body *)

NoField == [kind |-> "undefined", items |-> <<>>]

\* a truthy value that is not an array (an object, a string)
NotArray == [kind |-> "object", items |-> <<>>]

ArrayOf(items) == [kind |-> "array", items |-> items]

HasNull(items) == \E i \in 1..Len(items) : items[i].kind = "null"

HasBadDate(items) == \E i \in 1..Len(items) : items[i].date.kind = "invalid"

-----------------------------------------------------------------------------
(* Statistics: generate-insights (v3) and getFallbackAnalysis *)

RECURSIVE AddAll(_, _)
\* transactions.forEach(t => { obj[key(t)] = (obj[key(t)] || 0) + t.amount })
AddAll(obj, items) ==
    IF items = <<>> THEN obj
    ELSE AddAll(ObjAdd(obj, CategoryKey(items[1]), items[1].amount), Tail(items))

RECURSIVE AddUp(_, _)
\* transactions.forEach(t => { totalAmount += t.amount })
AddUp(acc, items) ==
    IF items = <<>> THEN acc ELSE AddUp(acc + items[1].amount, Tail(items))

TopN == 3

NoStats == [threw |-> TRUE, totalAmount |-> 0, topCategories |-> <<>>]

\* statistics that keep the two largest categories only
InsightStatsTopTwo(items) ==
    IF HasNull(items) THEN NoStats
    ELSE [threw |-> FALSE,
          totalAmount |-> AddUp(0, items),
          topCategories |->
              Slice0(SortDescBySum(ObjectEntries(AddAll(<<>>, items))), 2)]

\* the handler's categoryTotals, totalAmount and topCategories; reading
\* t.category of a null element throws a TypeError
InsightStats(items) ==
    IF HasNull(items) THEN NoStats
    ELSE [threw |-> FALSE,
          totalAmount |-> AddUp(0, items),
          topCategories |->
              Slice0(SortDescBySum(ObjectEntries(AddAll(<<>>, items))), TopN)]

\* the week a day falls in: the day of its Sunday
WeekStart(day) == day - (day % 7)

\* Object.keys(weeklySpending).length
Weeks(items) ==
    Cardinality({WeekStart(items[i].date.day) :
                    i \in {j \in 1..Len(items) : items[j].date.kind = "valid"}})

NoAnalysis ==
    [threw |-> FALSE, kind |-> "none", total |-> <<>>, count |-> 0,
     average |-> <<>>, weeks |-> 0, top |-> <<>>, review |-> Undefined]

\* the line of the template for one top category
TopLine(entry, totalAmount) ==
    [category |-> entry[1], amount |-> ToFixed2(entry[2]),
     share |-> ToFixed1Share(entry[2], totalAmount)]

\* (totalAmount / n).toFixed(2), to the nearest cent
Average2(totalAmount, n) == ToFixed2((2 * totalAmount + n) \div (2 * n))

\* getFallbackAnalysis(transactions, month, year): the values its template prints
getFallbackAnalysis(field) ==
    IF field.kind = "undefined" \/ (field.kind = "array" /\ field.items = <<>>)
    THEN [NoAnalysis EXCEPT !.kind = "nodata"]
    ELSE IF field.kind # "array" \/ HasNull(field.items) \/ HasBadDate(field.items)
    THEN [NoAnalysis EXCEPT !.threw = TRUE]
    ELSE LET items == field.items
             totalAmount == AddUp(0, items)
             topCategories ==
                 Slice0(SortDescBySum(ObjectEntries(AddAll(<<>>, items))), TopN)
         IN  [threw |-> FALSE, kind |-> "analysis",
              total |-> ToFixed2(totalAmount),
              count |-> Len(items),
              average |-> Average2(totalAmount, Len(items)),
              weeks |-> Weeks(items),
              top |-> [i \in 1..Len(topCategories) |->
                          TopLine(topCategories[i], totalAmount)],
              review |-> IF topCategories = <<>> THEN Undefined
                         ELSE topCategories[1][1]]

-----------------------------------------------------------------------------
(* Report rendering *)

Variants == {"v1", "v2", "v3"}

\* new Date(t.date).toLocaleDateString(): "Invalid Date" unless t.date parses
DateCell(d) == IF d.kind = "valid" THEN d ELSE BadDate

\* the category column: t.category_name (v1, v2), t.category_name || t.category (v3)
CategoryCell(v, t) ==
    IF v = "v3" /\ t.category_name = Undefined THEN t.category ELSE t.category_name

\* t.description || '-'
DescriptionCell(t) ==
    IF t.description = Undefined \/ t.description = "" THEN "-" ELSE t.description

ReportRow(v, t) ==
    [date |-> DateCell(t.date), category |-> CategoryCell(v, t),
     description |-> DescriptionCell(t), amount |-> ToFixed2(t.amount)]

NoReport == [threw |-> TRUE, summary |-> "", rows |-> <<>>, total |-> <<>>]

\* a total taken from the body when the caller sent one
ReportTotalTrustsCaller(body) ==
    IF body.total.given THEN body.total.cents ELSE AddUp(0, body.transactions.items)

\* let total = 0; transactions.forEach(t => { total += t.amount; ... })
ReportTotal(body) == AddUp(0, body.transactions.items)

\* the generate-report handler's document: undefined.forEach, forEach of a
\* non-array and t.amount of a null element throw a TypeError
GenerateReport(v, body) ==
    IF body.transactions.kind # "array" \/ HasNull(body.transactions.items)
    THEN NoReport
    ELSE [threw |-> FALSE,
          summary |-> body.summary,
          rows |-> [i \in 1..Len(body.transactions.items) |->
                       ReportRow(v, body.transactions.items[i])],
          total |-> ToFixed2(ReportTotal(body))]

RECURSIVE Reduce(_, _)
\* transactions.reduce((sum, t) => sum + t.amount, acc)
Reduce(items, acc) ==
    IF items = <<>> THEN acc ELSE Reduce(Tail(items), acc + items[1].amount)

\* the client's MyDocument component: its rows and its total (the transactions
\* the client passes carry the joined `categories` object that line 143 reads)
MyDocument(props) ==
    [threw |-> FALSE,
     summary |-> props.summary,
     rows |-> [i \in 1..Len(props.transactions.items) |->
                  ReportRow("v1", props.transactions.items[i])],
     total |-> ToFixed2(Reduce(props.transactions.items, 0))]

\* the Reports page's generatePDF: the monthly total under the week tables
GeneratePDFTotal(transactions) == ToFixed2(Reduce(transactions, 0))

\* firstDayOfMonth.getDay(): day 1 of the month of the model is a Monday
FirstWeekday == 1

\* getWeekOfMonth(new Date(t.date)): Math.ceil((dayOfMonth + firstDay) / 7);
\* 0 stands for the NaN of a date that does not parse
GetWeekOfMonth(d) ==
    IF d.kind = "valid" THEN (d.day + FirstWeekday + 6) \div 7 ELSE 0

\* if (!weeklyTransactions[weekKey]) weeklyTransactions[weekKey] = [];
\* weeklyTransactions[weekKey].push(transaction)
PushToWeek(weekly, week, t) ==
    IF \E i \in 1..Len(weekly) : weekly[i].week = week
    THEN [i \in 1..Len(weekly) |->
             IF weekly[i].week = week
             THEN [weekly[i] EXCEPT !.items = Append(@, t)]
             ELSE weekly[i]]
    ELSE Append(weekly, [week |-> week, items |-> <<t>>])

RECURSIVE GroupByWeek(_, _)
\* fetchTransactions: formattedData.forEach(...) into weeklyTransactions, whose
\* keys 'Week n' keep their creation order
GroupByWeek(items, weekly) ==
    IF items = <<>> THEN weekly
    ELSE GroupByWeek(Tail(items),
                     PushToWeek(weekly, GetWeekOfMonth(items[1].date), items[1]))

\* generatePDF: one table per week, a row per transaction of the week
WeekTables(items) ==
    LET weekly == GroupByWeek(items, <<>>) IN
    [w \in 1..Len(weekly) |->
        [week |-> weekly[w].week,
         rows |-> [i \in 1..Len(weekly[w].items) |->
                      ReportRow("v1", weekly[w].items[i])]]]

-----------------------------------------------------------------------------
(* Requests and responses *)

Reqs == 1..NumReqs

\* the report body; the insights body carries the same `transactions` field
Body(field, total, summary) ==
    [transactions |-> field, total |-> total, summary |-> summary]

NoTotal == [given |-> FALSE, cents |-> 0]

NoReq ==
    [endpoint |-> "none", header |-> <<>>, body |-> Body(NoField, NoTotal, "")]

NoMeta ==
    [keys |-> {}, totalTransactions |-> 0, totalAmount |-> <<>>,
     topCategories |-> <<>>]

NoResp ==
    [status |-> 0, kind |-> "none", type |-> Undefined, error |-> Undefined, message |-> Undefined,
     insights |-> Undefined, success |-> Undefined, fallback |-> Undefined,
     analysis |-> NoAnalysis, metadata |-> NoMeta, report |-> NoReport]

\* res.status(status).json({ error })
JsonError(status, error) ==
    [NoResp EXCEPT !.status = status, !.kind = "json", !.type = "application/json", !.error = error]

-----------------------------------------------------------------------------
(* authenticateJWT *)

\* the Authorization header as its words; <<>> is no header at all
Headers == {<<>>, <<"Bearer">>, <<"Bearer", "tok">>, <<"Basic", "tok">>}

\* req.headers.authorization?.split(' ')[1]
Token(header) == IF Len(header) >= 2 THEN header[2] ELSE Undefined

\* !token
NoToken(header) == Token(header) \in {Undefined, ""}

\* what supabase.auth.getUser(token) can answer: a user, neither user nor
\* error, an error, or an exception (a rejection, or no data to destructure)
AuthReplies == {"user", "nouser", "error", "throw"}

\* a gate that overlooks the error of the reply
AuthPassesOnError(reply) == reply # "throw"

\* the gate calls next() unless the reply carries an error or throws
AuthPasses(reply) == reply \notin {"error", "throw"}

\* a rejection whose body names why verification failed
GateRejectionLeaks(why) == JsonError(401, why)

\* res.status(401).json({ error: 'Unauthorized' }), sent for a missing token
\* ("missing") and from the catch block ("error", "throw") alike
GateRejection(why) == JsonError(401, "Unauthorized")

\* a gate that attaches no identity
ResolvedUserUnset(reply) == "null"

\* req.user = user
ResolvedUser(reply) == IF reply = "user" THEN "u1" ELSE "null"

-----------------------------------------------------------------------------
(* generate-insights *)

AiReplies == {"raise", "noResponse", "empty", "blank", "text"}

\* response.text() of a reply that carries text
AiText(reply) ==
    IF reply = "text" THEN "Cut back on takeaway"
    ELSE IF reply = "blank" THEN "   " ELSE ""

NoDataMessage == "No transactions available for analysis"

\* what a handler does next: respond, call the provider, or reject its promise
Respond(r) == [do |-> "respond", resp |-> r]

CallProvider == [do |-> "call", resp |-> NoResp]

Reject == [do |-> "reject", resp |-> NoResp]

\* the catch block of v3: the fallback summary, computed from the same body
FallbackResponse(body) ==
    LET analysis == getFallbackAnalysis(body.transactions)
    IN  IF analysis.threw THEN Reject
        ELSE Respond([NoResp EXCEPT
                 !.status = 200, !.kind = "json", !.type = "application/json",
                 !.insights = "fallback analysis", !.analysis = analysis,
                 !.success = "false", !.fallback = "true",
                 !.error = "AI analysis temporarily unavailable - showing basic analysis"])

\* the handler up to its await of model.generateContent
InsightsBeforeCall(v, body) ==
    LET field == body.transactions IN
    IF v = "v1" THEN CallProvider
    ELSE IF field.kind # "array"
    THEN Respond(JsonError(400, "Invalid transactions data"))
    ELSE IF field.items = <<>>
    THEN Respond([NoResp EXCEPT !.status = 200, !.kind = "json", !.type = "application/json",
                                !.insights = NoDataMessage])
    ELSE IF v = "v2" THEN CallProvider
    ELSE IF InsightStats(field.items).threw THEN FallbackResponse(body)
    ELSE CallProvider

\* metadata of the v3 success response
Metadata(items) ==
    LET stats == InsightStats(items) IN
    [keys |-> {"totalTransactions", "totalAmount", "topCategories"},
     totalTransactions |-> Len(items),
     totalAmount |-> ToFixed2(stats.totalAmount),
     topCategories |-> [i \in 1..Len(stats.topCategories) |->
                           [category |-> stats.topCategories[i][1],
                            amount |-> ToFixed2(stats.topCategories[i][2])]]]

\* meta of the v2 success response: transactionCount and period
Meta2(items) ==
    [NoMeta EXCEPT !.keys = {"transactionCount", "period"},
                   !.totalTransactions = Len(items)]

\* error.stack goes into the v2 error body only in development
Details(env) == IF env = "development" THEN "error.stack" ELSE Undefined

\* the handler from the provider's reply on
InsightsAfterCall(v, env, body, reply) ==
    LET ok == [NoResp EXCEPT !.status = 200, !.kind = "json", !.type = "application/json",
                             !.insights = AiText(reply)]
    IN
    IF v = "v1"
    THEN IF reply \in {"raise", "noResponse"}
         THEN Respond(JsonError(500, "Failed to generate insights"))
         ELSE Respond(ok)
    ELSE IF v = "v2"
    THEN IF reply = "raise"
         THEN Respond([JsonError(500, "AI service unavailable")
                           EXCEPT !.message = Details(env)])
         ELSE IF reply = "noResponse"
         THEN Respond([JsonError(500, "TypeError: Cannot read properties of undefined")
                           EXCEPT !.message = Details(env)])
         ELSE IF reply = "empty"
         THEN Respond([JsonError(500, "Empty response from AI")
                           EXCEPT !.message = Details(env)])
         ELSE Respond([ok EXCEPT !.metadata = Meta2(body.transactions.items)])
    ELSE IF reply # "text" THEN FallbackResponse(body)
    ELSE Respond([ok EXCEPT !.success = "true",
                            !.metadata = Metadata(body.transactions.items)])

-----------------------------------------------------------------------------
(* generate-report *)

\* a handler that lets the rows written before the throw go out as the PDF
ReportHandlerSendsPartial(v, body) ==
    LET doc == GenerateReport(v, body) IN
    Respond([NoResp EXCEPT !.status = 200, !.kind = "pdf",
                           !.type = "application/pdf", !.report = doc])

\* the generate-report handler.  The Content-Type header is set before the
\* document is written and res.json keeps a type that is already set, so the
\* error body goes out labelled application/pdf; nothing of the document has
\* reached the response when the synchronous rendering throws.
ReportHandler(v, body) ==
    LET doc == GenerateReport(v, body) IN
    IF doc.threw
    THEN Respond([JsonError(500, "Failed to generate PDF")
                      EXCEPT !.type = "application/pdf"])
    ELSE Respond([NoResp EXCEPT !.status = 200, !.kind = "pdf",
                                !.type = "application/pdf", !.report = doc])

-----------------------------------------------------------------------------
(* The error-handling middleware and the platform *)

\* how a rejected handler promise ends: ignored (the request is never
\* answered), fatal (the process exits), or forwarded to the error middleware
Runtimes == {"hang", "crash", "forward"}

NodeEnvs == {"development", "production"}

\* app.use((error, req, res, next) => res.status(500).json({ error, message }))
ErrorMiddleware(env) ==
    [JsonError(500, "Internal server error") EXCEPT
        !.message = IF env = "development" THEN "error.message"
                    ELSE "Something went wrong"]

-----------------------------------------------------------------------------
(* The backend tables the client reads and writes: `transactions` with its   *)
(* row-level policies (src/server/database.sql) and `budgets`                *)

Users == {"u1", "u2"}

\* auth.uid() of a request without a session: NULL
Anon == "anon"

Null == "null"

RowIds == 1..MaxRows

RowAmounts == {1250, 4000}

\* a row of `transactions`: id, user_id, amount (the other columns play no part)
Row(id, userId, amount) == [id |-> id, user_id |-> userId, amount |-> amount]

\* the policies on `transactions`, by command; `check` is an explicit WITH CHECK
Policies ==
    {[name |-> "Users can view their own transactions", cmd |-> "SELECT", check |-> FALSE],
     [name |-> "Users can insert their own transactions", cmd |-> "INSERT", check |-> TRUE],
     [name |-> "Users can update their own transactions", cmd |-> "UPDATE", check |-> FALSE],
     [name |-> "Users can delete their own transactions", cmd |-> "DELETE", check |-> FALSE],
     [name |-> "Users can manage their own transactions", cmd |-> "ALL", check |-> FALSE]}

\* a policy expression that lets every row through
OwnsRowAlways(uid, row) == TRUE

\* auth.uid() = user_id; NULL equals nothing
OwnsRow(uid, row) == uid # Anon /\ uid = row.user_id

\* the USING side: the permissive policies of the command, or'ed
Using(cmd, uid, row) ==
    \E p \in Policies : p.cmd \in {cmd, "ALL"} /\ ~p.check /\ OwnsRow(uid, row)

\* the WITH CHECK side: the explicit checks, and the USING expressions that
\* stand in where a policy gives none
WithCheck(cmd, uid, row) ==
    \E p \in Policies : p.cmd \in {cmd, "ALL"} /\ OwnsRow(uid, row)

\* the rows a statement with the filter can see
Visible(table, uid, filter) ==
    {row \in table : row.id \in filter /\ Using("SELECT", uid, row)}

IdsOf(table) == {row.id : row \in table}

NoOp ==
    [user |-> Anon, cmd |-> "none", filter |-> {}, error |-> FALSE, read |-> {},
     created |-> {}, removed |-> {}, changedFrom |-> {}, changedTo |-> {}]

\* what a statement did, from the table before and after it
Effect(uid, cmd, filter, error, read, before, after) ==
    [user |-> uid, cmd |-> cmd, filter |-> filter, error |-> error, read |-> read,
     created |-> {row \in after : row.id \notin IdsOf(before)},
     removed |-> {row \in before : row.id \notin IdsOf(after)},
     changedFrom |-> {row \in before : row.id \in IdsOf(after) /\ row \notin after},
     changedTo |-> {row \in after : row.id \in IdsOf(before) /\ row \notin before}]

\* select ... from transactions [where id in filter]: fetchTransactions sends
\* no user_id filter at all
DbSelect ==
    /\ \E uid \in Users \cup {Anon}, filter \in SUBSET RowIds :
          lastOp' = Effect(uid, "SELECT", filter, FALSE,
                           Visible(transactionsTable, uid, filter),
                           transactionsTable, transactionsTable)
    /\ UNCHANGED <<transactionsTable, budgetsTable, budgetKey, tab, lastBudget,
                   serverVars, pureVars, clientVars>>

\* insert into transactions (..., user_id) values (..., owner)
DbInsert ==
    /\ Cardinality(transactionsTable) < MaxRows
    /\ \E uid \in Users \cup {Anon}, owner \in Users \cup {Null}, amount \in RowAmounts :
          LET id == CHOOSE i \in RowIds : i \notin IdsOf(transactionsTable)
              row == Row(id, owner, amount)
              ok == owner # Null /\ WithCheck("INSERT", uid, row)
              after == IF ok THEN transactionsTable \cup {row} ELSE transactionsTable
          IN  /\ transactionsTable' = after
              /\ lastOp' = Effect(uid, "INSERT", {}, ~ok, {}, transactionsTable, after)
    /\ UNCHANGED <<budgetsTable, budgetKey, tab, lastBudget, serverVars, pureVars, clientVars>>

\* update transactions set user_id = owner, amount = amount [where id in filter]
DbUpdate ==
    /\ \E uid \in Users \cup {Anon}, filter \in SUBSET RowIds,
          owner \in Users, amount \in RowAmounts :
          LET targets == {row \in Visible(transactionsTable, uid, filter) :
                             Using("UPDATE", uid, row)}
              news == {Row(row.id, owner, amount) : row \in targets}
              ok == \A row \in news : WithCheck("UPDATE", uid, row)
              after == IF ok THEN (transactionsTable \ targets) \cup news
                       ELSE transactionsTable
          IN  /\ transactionsTable' = after
              /\ lastOp' = Effect(uid, "UPDATE", filter, ~ok, {}, transactionsTable, after)
    /\ UNCHANGED <<budgetsTable, budgetKey, tab, lastBudget, serverVars, pureVars, clientVars>>

\* delete from transactions [where id in filter]: deleteTransaction filters on
\* the id alone
DbDelete ==
    /\ \E uid \in Users \cup {Anon}, filter \in SUBSET RowIds :
          LET targets == {row \in Visible(transactionsTable, uid, filter) :
                             Using("DELETE", uid, row)}
              after == transactionsTable \ targets
          IN  /\ transactionsTable' = after
              /\ lastOp' = Effect(uid, "DELETE", filter, FALSE, {}, transactionsTable, after)
    /\ UNCHANGED <<budgetsTable, budgetKey, tab, lastBudget, serverVars, pureVars, clientVars>>

Tabs == 1..NumTabs

\* now.getMonth() + 1 and now.getFullYear() of the client's clock
Periods == {<<12, 2024>>, <<1, 2025>>}

NoTab ==
    [pc |-> "idle", user |-> Null, amount |-> 0, month |-> <<0, 0>>, outcome |-> "none"]

-----------------------------------------------------------------------------
(* The Dashboard page *)

\* the first Dashboard ("plain") and the budget-aware one ("budget")
Dashboards == {"plain", "budget"}

\* a fetched transaction: amount in cents, whether its date falls in the month
\* of the client's clock, and its day of the month
DashTx(amount, inMonth, day) == [amount |-> amount, inMonth |-> inMonth, day |-> day]

DashTxs ==
    {DashTx(1250, TRUE, 1), DashTx(4000, TRUE, 31), DashTx(1250, FALSE, 15)}

\* what the select on `transactions` can return
DashLists == SeqUpTo(DashTxs, MaxDashTx)

\* what the select on `budgets` can return: no row, or a row with its amount
DashBudgets == {Null, "10000", "2500"}

BudgetAmount(b) == IF b = "10000" THEN 10000 ELSE 2500

\* new Date(year, month, 1).getDay()
Weekdays == 0..6

\* Math.ceil(n / 7)
CeilDiv7(n) == (n + 6) \div 7

\* getWeekOfMonth(date), for a month whose first day is the weekday firstDay
DashWeekOfMonth(day, firstDay) == CeilDiv7(day + firstDay)

WeekKeys == 1..5

\* a week key that takes the week number as it is
WeekKeyUncapped(weekNum) == weekNum

\* `Week ${Math.min(weekNum, 5)}`
WeekKey(weekNum) == Min(weekNum, 5)

\* transactions.filter(...) on the month and year of the client's clock
RECURSIVE MonthlyTransactions(_)
MonthlyTransactions(items) ==
    IF items = <<>> THEN <<>>
    ELSE (IF Head(items).inMonth THEN <<Head(items)>> ELSE <<>>)
            \o MonthlyTransactions(Tail(items))

\* monthlyTransactions.reduce((sum, t) => sum + t.amount, 0)
RECURSIVE DashTotal(_)
DashTotal(items) ==
    IF items = <<>> THEN 0 ELSE Head(items).amount + DashTotal(Tail(items))

\* the forEach over monthlyTransactions that fills weeklyMap; a key that was
\* not initialised is created by the assignment
RECURSIVE AssignWeeks(_, _, _)
AssignWeeks(items, weeklyMap, firstDay) ==
    IF items = <<>> THEN weeklyMap
    ELSE LET k == WeekKey(DashWeekOfMonth(Head(items).day, firstDay))
             was == IF k \in DOMAIN weeklyMap THEN weeklyMap[k] ELSE 0
         IN  AssignWeeks(Tail(items),
                [j \in DOMAIN weeklyMap \cup {k} |->
                    IF j = k THEN was + Head(items).amount ELSE weeklyMap[j]],
                firstDay)

NoWeeklyData == << >>

\* processData: the monthly total, the budget metrics and the weekly chart
\* (the category and six-month charts are not modelled)
ProcessData(d, transactions) ==
    LET monthly == MonthlyTransactions(transactions)
        total == DashTotal(monthly)
        hasBudget == d.which = "budget" /\ d.currentBudget # Null
    IN  [d EXCEPT
            !.monthlyTotal = total,
            !.remainingBudget =
                IF hasBudget THEN BudgetAmount(d.currentBudget) - total ELSE 0,
            !.budgetProgress =
                IF hasBudget THEN (total * 100) \div BudgetAmount(d.currentBudget) ELSE 0,
            !.weeklyData = AssignWeeks(monthly, [k \in WeekKeys |-> 0], d.firstDay)]

\* useEffect(..., [currentBudget, transactions]) of the budget-aware Dashboard
RunEffect(d) ==
    IF d.currentBudget # Null /\ Len(d.transactions) > 0
    THEN ProcessData(d, d.transactions)
    ELSE d

NoDash ==
    [which |-> "plain", firstDay |-> 0, mounted |-> FALSE, transactions |-> <<>>,
     loading |-> TRUE, monthlyTotal |-> 0, weeklyData |-> NoWeeklyData,
     currentBudget |-> Null, remainingBudget |-> 0, budgetProgress |-> 0,
     txFetches |-> 0, budgetFetches |-> 0]

\* fetchTransactions is called: on mount, and in the budget-aware Dashboard
\* again by the timer and when the page becomes visible
DashFetchTransactions ==
    /\ dash.mounted
    /\ dash.txFetches < MaxFetches
    /\ dash.which = "plain" => dash.txFetches = 0 /\ dash.loading /\ dash.transactions = <<>>
    /\ dash' = [dash EXCEPT !.txFetches = @ + 1,
                            !.loading = IF dash.which = "plain" THEN TRUE ELSE @]
    /\ UNCHANGED <<serverVars, pureVars, dataVars, reports, page, auth>>

\* its awaits settle: an error, or the rows, which go into the state; the
\* plain Dashboard processes them itself, the budget-aware one in its effect
DashTransactionsSettle ==
    /\ dash.txFetches > 0
    /\ \E failed \in BOOLEAN, data \in DashLists :
          LET d == [dash EXCEPT !.txFetches = @ - 1, !.loading = FALSE] IN
          dash' = IF failed THEN d
                  ELSE IF dash.which = "plain"
                  THEN ProcessData([d EXCEPT !.transactions = data], data)
                  ELSE RunEffect([d EXCEPT !.transactions = data])
    /\ UNCHANGED <<serverVars, pureVars, dataVars, reports, page, auth>>

\* fetchCurrentBudget is called, by the budget-aware Dashboard only
DashFetchBudget ==
    /\ dash.mounted
    /\ dash.which = "budget"
    /\ dash.budgetFetches < MaxFetches
    /\ dash' = [dash EXCEPT !.budgetFetches = @ + 1]
    /\ UNCHANGED <<serverVars, pureVars, dataVars, reports, page, auth>>

\* its awaits settle: an error other than 'no row' leaves the state alone,
\* otherwise the row or null becomes currentBudget and the effect runs
DashBudgetSettle ==
    /\ dash.budgetFetches > 0
    /\ \E failed \in BOOLEAN, data \in DashBudgets :
          LET d == [dash EXCEPT !.budgetFetches = @ - 1] IN
          dash' = IF failed THEN d
                  ELSE RunEffect([d EXCEPT !.currentBudget = data])
    /\ UNCHANGED <<serverVars, pureVars, dataVars, reports, page, auth>>

-----------------------------------------------------------------------------
(* The Reports page *)

\* no month: the list the component starts with came from no query
NoPeriod == <<0, 0>>

NoSummary == [kind |-> "none", of |-> NoPeriod]

\* the component before it is mounted; transactionsOf and byWeekOf name the
\* month whose rows `transactions` and `transactionsByWeek` hold
NoReports ==
    [mounted |-> FALSE, selected |-> NoPeriod, loading |-> TRUE, error |-> Null,
     transactionsOf |-> NoPeriod, byWeekOf |-> NoPeriod, summary |-> NoSummary,
     fetches |-> [p \in Periods |-> 0],
     summaries |-> [p \in Periods \cup {NoPeriod} |-> 0]]

\* a function into counts, as a total
RECURSIVE CountAll(_, _)
CountAll(f, keys) ==
    IF keys = {} THEN 0
    ELSE LET k == CHOOSE x \in keys : TRUE IN f[k] + CountAll(f, keys \ {k})

\* the selectors and the buttons exist only when the page is not 'Loading...'
Rendered(r) == r.mounted /\ ~r.loading

\* fetchTransactions up to its first await, for the month selected
StartFetch(r) ==
    [r EXCEPT !.loading = TRUE, !.error = Null,
              !.fetches = [@ EXCEPT ![r.selected] = @ + 1]]

\* handleMonthChange / handleYearChange, and the effect on [selectedMonth,
\* selectedYear] that calls fetchTransactions
ChangePeriod ==
    /\ Rendered(reports)
    /\ CountAll(reports.fetches, Periods) < MaxFetches
    /\ \E p \in Periods \ {reports.selected} :
          reports' = StartFetch([reports EXCEPT !.selected = p])
    /\ UNCHANGED <<serverVars, pureVars, dataVars, dash, page, auth>>

\* a fetch settles: the rows of the month it asked for and their grouping by
\* week go into the state, or the error does; loading ends either way
FetchSettles ==
    /\ \E p \in Periods, failed \in BOOLEAN :
          /\ reports.fetches[p] > 0
          /\ LET r == [reports EXCEPT !.fetches = [@ EXCEPT ![p] = @ - 1],
                                      !.loading = FALSE]
             IN  reports' = IF failed THEN [r EXCEPT !.error = "fetch failed"]
                            ELSE [r EXCEPT !.transactionsOf = p, !.byWeekOf = p]
    /\ UNCHANGED <<serverVars, pureVars, dataVars, dash, page, auth>>

\* generateSummary up to its first await: the payload is built from the
\* transactions of the render in which the button was clicked
GenerateSummary ==
    /\ Rendered(reports)
    /\ CountAll(reports.summaries, Periods \cup {NoPeriod}) < MaxFetches
    /\ reports' = [reports EXCEPT
                      !.error = Null,
                      !.summary = [kind |-> "generating", of |-> NoPeriod],
                      !.summaries = [@ EXCEPT ![reports.transactionsOf] = @ + 1]]
    /\ UNCHANGED <<serverVars, pureVars, dataVars, dash, page, auth>>

\* its awaits settle: the insights become the summary, or the error is shown
\* and the summary cleared
SummarySettles ==
    /\ \E p \in Periods \cup {NoPeriod}, failed \in BOOLEAN :
          /\ reports.summaries[p] > 0
          /\ LET r == [reports EXCEPT !.summaries = [@ EXCEPT ![p] = @ - 1]]
             IN  reports' = IF failed
                            THEN [r EXCEPT !.error = "analysis failed", !.summary = NoSummary]
                            ELSE [r EXCEPT !.summary = [kind |-> "text", of |-> p]]
    /\ UNCHANGED <<serverVars, pureVars, dataVars, dash, page, auth>>

-----------------------------------------------------------------------------
(* The Transactions page: its state *)

\* formData as useState initialises it and as a saved transaction resets it
EmptyForm == [amount |-> "", category_id |-> "", receipt |-> FALSE]

\* the component before it is mounted; transactions is the number of rows the
\* list holds, calls the backend calls of the running handleSubmit in order,
\* budgetFlights the calls of handleBudgetSubmit not yet settled
NoPage ==
    [mounted |-> FALSE, which |-> "buckets", formData |-> EmptyForm,
     budgetInput |-> "", error |-> Null, isUploading |-> FALSE,
     transactions |-> 0, currentBudget |-> Null, pc |-> "idle",
     submitted |-> EmptyForm, upload |-> "none", calls |-> <<>>, inserts |-> 0,
     budgetFlights |-> 0, last |-> "none"]

-----------------------------------------------------------------------------
(* AuthProvider and the routes *)

Routes == {"/login", "/register", "/dashboard", "/transactions", "/reports", "/"}

\* the routes wrapped in ProtectedRoute
Protected == {"/dashboard", "/transactions", "/reports"}

\* the application before it is loaded: session is the user of the session the
\* browser has persisted, shown the page on screen, bounced whether the load
\* sent a signed-in user from a protected route to /login, events the sessions
\* the listener of onAuthStateChange is still to be told
NoAuth ==
    [session |-> Null, effectRun |-> FALSE, loading |-> TRUE, user |-> Null,
     route |-> "/login", shown |-> "nothing", bounced |-> FALSE, events |-> <<>>]

\* supabase.auth.getSession() is a promise, session?.user of it is undefined:
\* const session = supabase.auth.getSession(); session?.user ?? null
SessionUser(session) == Null

\* {!loading && children}, the route '/' and ProtectedRoute
Render(a) ==
    IF a.loading THEN [a EXCEPT !.shown = "nothing"]
    ELSE LET r == IF a.route = "/" THEN "/dashboard" ELSE a.route IN
         IF r \in Protected /\ a.user = Null
         THEN [a EXCEPT !.route = "/login", !.shown = "/login"]
         ELSE [a EXCEPT !.route = r, !.shown = r]

\* the effect of AuthProvider on mount, and the render it causes
AuthEffect ==
    /\ ~auth.effectRun
    /\ LET a == Render([auth EXCEPT !.effectRun = TRUE,
                                    !.user = SessionUser(auth.session),
                                    !.loading = FALSE,
                                    !.events = <<auth.session>>])
       IN  auth' = [a EXCEPT !.bounced =
                       /\ auth.session # Null
                       /\ auth.route \in Protected \cup {"/"}
                       /\ a.shown = "/login"]
    /\ UNCHANGED <<serverVars, pureVars, dataVars, dash, reports, page>>

\* the listener of onAuthStateChange is called with the next session
AuthStateChange ==
    /\ auth.events # <<>>
    /\ auth' = Render([auth EXCEPT !.user = Head(auth.events), !.loading = FALSE,
                                   !.events = Tail(@)])
    /\ UNCHANGED <<serverVars, pureVars, dataVars, dash, reports, page>>

\* signIn succeeds on the login page
SignIn ==
    /\ auth.shown = "/login"
    /\ auth.session = Null
    /\ Len(auth.events) < MaxEvents
    /\ \E u \in Users : auth' = [auth EXCEPT !.session = u, !.events = Append(@, u)]
    /\ UNCHANGED <<serverVars, pureVars, dataVars, dash, reports, page>>

\* signOut: the session ends and navigate('/login')
SignOut ==
    /\ auth.shown \notin {"nothing"}
    /\ auth.session # Null
    /\ Len(auth.events) < MaxEvents
    /\ auth' = Render([auth EXCEPT !.session = Null, !.route = "/login",
                                   !.events = Append(@, Null)])
    /\ UNCHANGED <<serverVars, pureVars, dataVars, dash, reports, page>>

\* the user follows a link to another route
GoTo ==
    /\ auth.shown # "nothing"
    /\ \E r \in Routes \ {auth.route} : auth' = Render([auth EXCEPT !.route = r])
    /\ UNCHANGED <<serverVars, pureVars, dataVars, dash, reports, page>>

\* no page is open
InitClientIdle ==
    /\ dash = NoDash
    /\ reports = NoReports
    /\ page = NoPage
    /\ auth = NoAuth

\* no statement was run, no budget submitted
InitDataIdle ==
    /\ transactionsTable = {}
    /\ budgetsTable = EmptyBag
    /\ budgetKey = TRUE
    /\ lastOp = NoOp
    /\ tab = [t \in Tabs |-> NoTab]
    /\ lastBudget = [k \in Users \X Periods |-> 0]

-----------------------------------------------------------------------------
(* The server: requests in flight, one step per turn of the event loop *)

Endpoints == {"generate-report", "generate-insights"}

\* transactions of a request body: two well-formed ones, one whose date does
\* not parse, and a null element
BodyTxs ==
    {Tx(1250, "Food", Undefined, Day(3), "Lunch"),
     Tx(4000, "Rent", Undefined, Day(12), ""),
     Tx(4000, "Food", Undefined, BadDate, "Lunch"),
     NullTx}

BodyFields == {NoField, NotArray} \cup {ArrayOf(s) : s \in SeqUpTo(BodyTxs, MaxBodyTx)}

Bodies == {Body(f, [given |-> TRUE, cents |-> 123456], "AI summary") : f \in BodyFields}

\* an outbound call made again right after it was made
StartCallTwice(log, name) == log \o <<name, name>>

\* an outbound call is made once, where the code awaits it
StartCall(log, name) == Append(log, name)

CountOf(log, name) == Cardinality({i \in 1..Len(log) : log[i] = name})

InFlight(q) == pc[q] \in {"auth", "ai", "hung"}

\* the handler's promise is rejected: nothing catches it
Unhandled(r) ==
    IF runtime = "forward"
    THEN /\ resp' = [resp EXCEPT ![r] = ErrorMiddleware(nodeEnv)]
         /\ pc' = [pc EXCEPT ![r] = "done"]
         /\ UNCHANGED serverUp
    ELSE IF runtime = "crash"
    THEN /\ serverUp' = FALSE
         /\ pc' = [q \in Reqs |-> IF q = r \/ InFlight(q) THEN "aborted" ELSE pc[q]]
         /\ UNCHANGED resp
    ELSE /\ pc' = [pc EXCEPT ![r] = "hung"]
         /\ UNCHANGED <<resp, serverUp>>

\* the request goes on as the handler decided; log holds its calls so far
Continue(r, next, log) ==
    IF next.do = "respond"
    THEN /\ resp' = [resp EXCEPT ![r] = next.resp]
         /\ pc' = [pc EXCEPT ![r] = "done"]
         /\ calls' = [calls EXCEPT ![r] = log]
         /\ UNCHANGED serverUp
    ELSE IF next.do = "call"
    THEN /\ calls' = [calls EXCEPT ![r] = StartCall(log, "generateContent")]
         /\ pc' = [pc EXCEPT ![r] = "ai"]
         /\ UNCHANGED <<resp, serverUp>>
    ELSE /\ calls' = [calls EXCEPT ![r] = log]
         /\ Unhandled(r)

\* a request arrives: authenticateJWT up to its await of supabase.auth.getUser
Receive(r) ==
    /\ serverUp
    /\ pc[r] = "idle"
    /\ \E e \in Endpoints, h \in Headers, b \in Bodies :
          /\ req' = [req EXCEPT ![r] = [endpoint |-> e, header |-> h, body |-> b]]
          /\ IF NoToken(h)
             THEN /\ resp' = [resp EXCEPT ![r] = GateRejection("missing")]
                  /\ pc' = [pc EXCEPT ![r] = "done"]
                  /\ UNCHANGED calls
             ELSE /\ calls' = [calls EXCEPT ![r] = StartCall(calls[r], "getUser")]
                  /\ pc' = [pc EXCEPT ![r] = "auth"]
                  /\ UNCHANGED resp
    /\ UNCHANGED <<variant, runtime, nodeEnv, serverUp, authReply, aiReply, user,
                   handlerRan, pureVars, dataVars, clientVars>>

\* getUser settles: the rest of authenticateJWT and, through next(), the route
\* handler up to its first await or its response
AuthSettles(r) ==
    /\ serverUp
    /\ pc[r] = "auth"
    /\ \E reply \in AuthReplies :
          /\ authReply' = [authReply EXCEPT ![r] = reply]
          /\ IF AuthPasses(reply)
             THEN /\ user' = [user EXCEPT ![r] = ResolvedUser(reply)]
                  /\ handlerRan' = [handlerRan EXCEPT ![r] = TRUE]
                  /\ Continue(r,
                        IF req[r].endpoint = "generate-report"
                        THEN ReportHandler(variant, req[r].body)
                        ELSE InsightsBeforeCall(variant, req[r].body),
                        Append(calls[r], "getUser:ok"))
             ELSE /\ resp' = [resp EXCEPT ![r] = GateRejection(reply)]
                  /\ pc' = [pc EXCEPT ![r] = "done"]
                  /\ calls' = [calls EXCEPT ![r] = Append(calls[r], "getUser:failed")]
                  /\ UNCHANGED <<user, handlerRan, serverUp>>
    /\ UNCHANGED <<variant, runtime, nodeEnv, req, aiReply, pureVars, dataVars, clientVars>>

\* generateContent settles: the rest of the generate-insights handler
AiSettles(r) ==
    /\ serverUp
    /\ pc[r] = "ai"
    /\ \E reply \in AiReplies :
          /\ aiReply' = [aiReply EXCEPT ![r] = reply]
          /\ Continue(r,
                InsightsAfterCall(variant, nodeEnv, req[r].body, reply),
                Append(calls[r], "generateContent:settled"))
    /\ UNCHANGED <<variant, runtime, nodeEnv, req, authReply, user, handlerRan,
                   pureVars, dataVars, clientVars>>

Init ==
    /\ variant \in Variants
    /\ runtime \in Runtimes
    /\ nodeEnv \in NodeEnvs
    /\ serverUp = TRUE
    /\ pc = [r \in Reqs |-> "idle"]
    /\ req = [r \in Reqs |-> NoReq]
    /\ authReply = [r \in Reqs |-> "none"]
    /\ aiReply = [r \in Reqs |-> "none"]
    /\ user = [r \in Reqs |-> Undefined]
    /\ handlerRan = [r \in Reqs |-> FALSE]
    /\ calls = [r \in Reqs |-> <<>>]
    /\ resp = [r \in Reqs |-> NoResp]
    /\ stage = "server"
    /\ input = Body(NoField, NoTotal, "")
    /\ output = NoAnalysis
    /\ InitDataIdle
    /\ InitClientIdle

Next ==
    \E r \in Reqs :
        \/ Receive(r)
        \/ AuthSettles(r)
        \/ AiSettles(r)

Spec == Init /\ [][Next]_vars

\* one request handled alone
NextSolo ==
    \/ Receive(1)
    \/ AuthSettles(1)
    \/ AiSettles(1)

SpecSolo == Init /\ [][NextSolo]_vars

-----------------------------------------------------------------------------
(* Properties of the server *)

Insights(r) == req[r].endpoint = "generate-insights"

Transactions(r) == req[r].body.transactions

Called(r, name) == CountOf(calls[r], name) > 0

Answered(r) == pc[r] = "done"

\* the request came without a token, or the provider rejected its token
Unauthenticated(r) ==
    /\ pc[r] # "idle"
    /\ NoToken(req[r].header) \/ authReply[r] \in {"error", "throw"}

\* C1: a request to a protected endpoint that carries no token, or a token the
\* auth provider rejects (an error, an exception), is answered 401 and the route
\* handler never runs for it: no call to the AI provider, no PDF content.
C1_UnauthenticatedIsRejected ==
    \A r \in Reqs :
        Unauthenticated(r) =>
            /\ Answered(r)
            /\ resp[r].status = 401
            /\ ~handlerRan[r]
            /\ ~Called(r, "generateContent")
            /\ resp[r].kind # "pdf"
            /\ resp[r].report = NoReport

\* a generate-insights request with transactions, whose token the auth
\* provider reported an error for, answered 401
C1_Witness ==
    \E r \in Reqs :
        /\ authReply[r] = "error"
        /\ Insights(r)
        /\ Transactions(r).kind = "array" /\ Transactions(r).items # <<>>
        /\ Answered(r)
        /\ resp[r].status = 401

\* C11: the token gate's rejection leaks no detail: for a missing token, a
\* verification error the provider reports and an exception of the provider the
\* response is the same status 401 with the same generic body, whatever the
\* header held and whatever the request asked for.
C11_RejectionLeaksNoDetail ==
    \A r \in Reqs :
        (Unauthenticated(r) /\ Answered(r)) => resp[r] = JsonError(401, "Unauthorized")

\* a request with a token, rejected because the auth provider threw
C11_Witness ==
    \E r \in Reqs :
        /\ Token(req[r].header) = "tok"
        /\ authReply[r] = "throw"
        /\ Answered(r)
        /\ resp[r].status = 401

\* C14: when rendering throws inside generate-report (the transactions field
\* is no list, or an element of it cannot be rendered), the request is answered
\* 500 with the fixed body 'Failed to generate PDF' and none of the document
\* goes out as a successful response.
C14_RenderingFailureIs500 ==
    \A r \in Reqs :
        (/\ handlerRan[r] /\ ~Insights(r)
         /\ Transactions(r).kind # "array" \/ HasNull(Transactions(r).items))
        => /\ Answered(r)
           /\ resp[r].status = 500
           /\ resp[r].kind = "json"
           /\ resp[r].error = "Failed to generate PDF"
           /\ resp[r].report = NoReport

\* a report request whose list holds a null element, answered 500
C14_Witness ==
    \E r \in Reqs :
        /\ handlerRan[r] /\ ~Insights(r)
        /\ Transactions(r).kind = "array" /\ HasNull(Transactions(r).items)
        /\ resp[r].status = 500

\* C15: a malformed body is answered 400 with a message on every protected
\* endpoint: a generate-report or generate-insights request that passed the
\* gate and whose transactions field is absent or no list gets 400, never a
\* server error and never a PDF.
C15_MalformedBodyIs400 ==
    \A r \in Reqs :
        (handlerRan[r] /\ Transactions(r).kind # "array")
        => /\ Answered(r)
           /\ resp[r].status = 400
           /\ resp[r].error # Undefined
           /\ resp[r].kind # "pdf"

ProviderFailed(r) == aiReply[r] \in {"raise", "noResponse", "empty", "blank"}

\* C2: an authenticated generate-insights request with a non-empty list, whose
\* provider call fails (raises, no response object, empty or blank text), is
\* answered 200 with fallback true, success false and a non-empty insights
\* text: never a 5xx, never no answer at all.
C2_ProviderFailureFallsBack ==
    \A r \in Reqs :
        (/\ handlerRan[r] /\ Insights(r)
         /\ Transactions(r).kind = "array" /\ Transactions(r).items # <<>>
         /\ ProviderFailed(r))
        => /\ Answered(r)
           /\ resp[r].status = 200
           /\ resp[r].fallback = "true"
           /\ resp[r].success = "false"
           /\ resp[r].insights \notin {Undefined, ""}

\* C3: an authenticated generate-insights request whose list is empty gets the
\* fixed "no data" message, and the AI provider is never called for it.
C3_EmptyListSkipsProvider ==
    \A r \in Reqs :
        (handlerRan[r] /\ Insights(r) /\ Transactions(r) = ArrayOf(<<>>))
        => /\ ~Called(r, "generateContent")
           /\ Answered(r)
           /\ resp[r].insights = NoDataMessage

\* C6: an authenticated generate-insights request whose transactions field is
\* absent or no array is answered 400, without a call to the AI provider and
\* without a fallback summary.
C6_NonArrayIsBadRequest ==
    \A r \in Reqs :
        (handlerRan[r] /\ Insights(r) /\ Transactions(r).kind # "array")
        => /\ ~Called(r, "generateContent")
           /\ Answered(r)
           /\ resp[r].status = 400
           /\ resp[r].analysis = NoAnalysis

\* the top categories with their sums, as the claim words them
IsTopCategories(top, items) ==
    /\ Len(top) = Min(3, Cardinality(CategoriesOf(items)))
    /\ \A i \in 1..Len(top) :
          /\ top[i].category \in CategoriesOf(items)
          /\ top[i].amount = ToFixed2(CategorySum(items, top[i].category))
    /\ \A i, j \in 1..Len(top) :
          i < j => /\ top[i].category # top[j].category
                   /\ CategorySum(items, top[i].category)
                          >= CategorySum(items, top[j].category)

\* C7: when the provider call succeeds with non-empty text, the response carries
\* that text unmodified as insights, with the metadata: the number of
\* transactions, the total of all amounts, the top categories and their sums.
C7_SuccessCarriesTextAndMetadata ==
    \A r \in Reqs :
        (Insights(r) /\ aiReply[r] = "text" /\ Transactions(r).kind = "array"
         /\ ~HasNull(Transactions(r).items))
        => /\ Answered(r)
           /\ resp[r].status = 200
           /\ resp[r].insights = AiText("text")
           /\ resp[r].metadata.keys =
                  {"totalTransactions", "totalAmount", "topCategories"}
           /\ resp[r].metadata.totalTransactions = Len(Transactions(r).items)
           /\ resp[r].metadata.totalAmount =
                  ToFixed2(SumAmounts(Transactions(r).items))
           /\ IsTopCategories(resp[r].metadata.topCategories, Transactions(r).items)

\* C8: a request makes at most one call to the auth provider and at most one to
\* the AI provider (no retry), and the AI call starts only after the request's
\* auth call has completed successfully.
C8_OneCallEachInOrder ==
    \A r \in Reqs :
        /\ CountOf(calls[r], "getUser") <= 1
        /\ CountOf(calls[r], "generateContent") <= 1
        /\ \A j \in 1..Len(calls[r]) :
              calls[r][j] = "generateContent"
                  => \E i \in 1..(j - 1) : calls[r][i] = "getUser:ok"

\* a provider call that raised, and was not made again
C8_Witness ==
    \E r \in Reqs :
        /\ aiReply[r] = "raise"
        /\ calls[r] = <<"getUser", "getUser:ok", "generateContent",
                        "generateContent:settled">>

\* the request's own handler rejects its promise, given its body and replies
RejectsAlone(r) ==
    /\ handlerRan[r]
    /\ Insights(r)
    /\ \/ InsightsBeforeCall(variant, req[r].body).do = "reject"
       \/ /\ aiReply[r] # "none"
          /\ InsightsAfterCall(variant, nodeEnv, req[r].body, aiReply[r]).do = "reject"

\* response texts that come from a caught error: its message or its stack
InternalDetails ==
    {"error.message", "error.stack", "TypeError: Cannot read properties of undefined"}

\* C16: an exception that reaches the catch-all middleware is answered 500 with
\* a generic message; an internal error detail (message or stack) is in a
\* response only outside production: with NODE_ENV production no response of
\* any endpoint holds one.
C16_DetailOnlyOutsideProduction ==
    \A r \in Reqs :
        /\ (runtime = "forward" /\ RejectsAlone(r) /\ Answered(r))
               => /\ resp[r].status = 500
                  /\ resp[r].error = "Internal server error"
        /\ nodeEnv = "production"
               => /\ resp[r].error \notin InternalDetails
                  /\ resp[r].message \notin InternalDetails

\* the answer a handler's decision amounts to when nothing else is running
AnswerOf(next) == IF next.do = "reject" THEN ErrorMiddleware(nodeEnv) ELSE next.resp

\* the answer the request gets when it is the only one
AnswerAlone(r) ==
    IF NoToken(req[r].header) \/ ~AuthPasses(authReply[r])
    THEN JsonError(401, "Unauthorized")
    ELSE IF ~Insights(r) THEN AnswerOf(ReportHandler(variant, req[r].body))
    ELSE IF aiReply[r] = "none"
    THEN AnswerOf(InsightsBeforeCall(variant, req[r].body))
    ELSE AnswerOf(InsightsAfterCall(variant, nodeEnv, req[r].body, aiReply[r]))

\* C10: requests are handled independently: under any interleaving a request's
\* outcome is the one it has when handled alone, fixed by its own header, body
\* and provider replies; no request's handling changes another's outcome.
C10_RequestsAreIndependent ==
    \A r \in Reqs :
        /\ pc[r] = "done" => resp[r] = AnswerAlone(r)
        /\ pc[r] \in {"hung", "aborted"} => RejectsAlone(r)

-----------------------------------------------------------------------------
(* Runs of the pure functions on bounded inputs *)

Amounts == {1250, 4000}

\* transactions of a pure-function run
PureTxs ==
    {Tx(1250, "Food", Undefined, Day(3), "Lunch"),
     Tx(4000, "Food", Undefined, Day(3), "Lunch"),
     Tx(4000, "Rent", Undefined, Day(3), "Lunch"),
     Tx(1250, "10", Undefined, Day(3), "Lunch")}
    \cup {Tx(1250, "7", Undefined, Day(3), "Lunch"),
          Tx(1250, "__proto__", Undefined, Day(3), "Lunch"),
          Tx(1250, Undefined, "Rent", Day(12), ""),
          Tx(4000, Undefined, Undefined, NoDate, Undefined)}

PureFields == {NoField} \cup {ArrayOf(s) : s \in SeqUpTo(PureTxs, MaxTx)}

CallerTotals == {NoTotal, [given |-> TRUE, cents |-> 123456]}

Summaries == {"", "AI summary"}

InitServerIdle ==
    /\ variant = "v3"
    /\ runtime = "hang"
    /\ nodeEnv = "production"
    /\ serverUp = TRUE
    /\ pc = [r \in Reqs |-> "idle"]
    /\ req = [r \in Reqs |-> NoReq]
    /\ authReply = [r \in Reqs |-> "none"]
    /\ aiReply = [r \in Reqs |-> "none"]
    /\ user = [r \in Reqs |-> Undefined]
    /\ handlerRan = [r \in Reqs |-> FALSE]
    /\ calls = [r \in Reqs |-> <<>>]
    /\ resp = [r \in Reqs |-> NoResp]

InitPure ==
    /\ InitServerIdle
    /\ stage = "input"
    /\ input \in {Body(f, NoTotal, "") : f \in PureFields}
    /\ output = NoAnalysis
    /\ InitDataIdle
    /\ InitClientIdle

\* getFallbackAnalysis applied to the list
ApplyFallback ==
    /\ stage = "input"
    /\ stage' = "fallback"
    /\ output' = getFallbackAnalysis(input.transactions)
    /\ UNCHANGED <<input, serverVars, dataVars, clientVars>>

\* the handler's statistics computed from the list
ApplyInsightStats ==
    /\ stage = "input"
    /\ input.transactions.kind = "array"
    /\ stage' = "stats"
    /\ output' = InsightStats(input.transactions.items)
    /\ UNCHANGED <<input, serverVars, dataVars, clientVars>>

\* the server's report rendered from a body with the list
ApplyGenerateReport ==
    /\ stage = "input"
    /\ \E v \in Variants, total \in CallerTotals, summary \in Summaries :
          /\ input' = Body(input.transactions, total, summary)
          /\ output' = GenerateReport(v, input')
    /\ stage' = "report"
    /\ UNCHANGED <<serverVars, dataVars, clientVars>>

\* the client's document rendered from props with the list
ApplyMyDocument ==
    /\ stage = "input"
    /\ input.transactions.kind = "array"
    /\ \E total \in CallerTotals, summary \in Summaries :
          /\ input' = Body(input.transactions, total, summary)
          /\ output' = MyDocument(input')
    /\ stage' = "document"
    /\ UNCHANGED <<serverVars, dataVars, clientVars>>

\* the Reports page's PDF total computed from the list
ApplyGeneratePDF ==
    /\ stage = "input"
    /\ input.transactions.kind = "array"
    /\ stage' = "clientpdf"
    /\ output' = [threw |-> FALSE,
                  total |-> GeneratePDFTotal(input.transactions.items),
                  tables |-> WeekTables(input.transactions.items)]
    /\ UNCHANGED <<input, serverVars, dataVars, clientVars>>

NextPure ==
    \/ ApplyFallback
    \/ ApplyInsightStats
    \/ ApplyGenerateReport
    \/ ApplyMyDocument
    \/ ApplyGeneratePDF

SpecPure == InitPure /\ [][NextPure]_vars

-----------------------------------------------------------------------------
(* Properties of the pure functions *)

\* the transactions of the run, when its list is an array
Items == input.transactions.items

FallbackReturned ==
    /\ stage = "fallback"
    /\ input.transactions.kind = "array"
    /\ Items # <<>>
    /\ ~output.threw

\* C4: for any non-empty transaction list, the total getFallbackAnalysis reports
\* is the sum of all amounts to the cent, and the top categories it lists are
\* the first (at most 3) of the per-category sums in descending order of sum,
\* each sum being that of exactly the transactions of the category.
C4_FallbackTotalAndRanking ==
    FallbackReturned =>
        /\ output.total = ToFixed2(SumAmounts(Items))
        /\ Len(output.top) = Min(3, Cardinality(CategoriesOf(Items)))
        /\ \A i \in 1..Len(output.top) :
              /\ output.top[i].category \in CategoriesOf(Items)
              /\ output.top[i].amount =
                     ToFixed2(CategorySum(Items, output.top[i].category))
        /\ \A i, j \in 1..Len(output.top) :
              /\ i # j => output.top[i].category # output.top[j].category
              /\ i < j => CategorySum(Items, output.top[i].category)
                              >= CategorySum(Items, output.top[j].category)
        /\ \A c \in CategoriesOf(Items), i \in 1..Len(output.top) :
              (\A j \in 1..Len(output.top) : output.top[j].category # c)
                  => CategorySum(Items, c) <= CategorySum(Items, output.top[i].category)

\* C5: the total a report prints is the sum of the amounts of the supplied list,
\* for every list (the empty one too), whatever total or summary the caller sent.
C5_ReportTotalIsSum ==
    (stage \in {"report", "document", "clientpdf"} /\ ~output.threw)
        => output.total = ToFixed2(SumAmounts(Items))

\* a report rendered by the server from a body whose own total is wrong
C5_Witness ==
    /\ stage = "report"
    /\ ~output.threw
    /\ Len(Items) >= 2
    /\ input.total.given
    /\ input.total.cents # SumAmounts(Items)
    /\ output.total = ToFixed2(SumAmounts(Items))

\* the cells the claim wants for a transaction: the date when it has one that
\* parses, its category (category_name, else category), the description or
\* '-', the amount with two decimals
ShowsTransaction(row, t) ==
    /\ t.date.kind = "valid" => row.date = t.date
    /\ row.category = (IF t.category_name # Undefined THEN t.category_name
                       ELSE t.category)
    /\ row.description = (IF t.description \in {Undefined, ""} THEN "-"
                          ELSE t.description)
    /\ row.amount = ToFixed2(t.amount)

\* the rows of all the week tables, one table after the other
RECURSIVE AllRows(_)
AllRows(tables) ==
    IF tables = <<>> THEN <<>> ELSE tables[1].rows \o AllRows(Tail(tables))

\* the transactions as the client holds them: category_name is always set
ClientShaped(items) == \A i \in 1..Len(items) : items[i].category_name # Undefined

\* C17: the rendered report lists every transaction of the supplied list once,
\* in the supplied order, each row with date, category, description or '-' and
\* the amount with two decimals; in the week-grouped client report every
\* transaction is in exactly one week table.
C17_EveryTransactionListedOnce ==
    /\ (stage = "report" /\ ~output.threw) \/ (stage = "document" /\ ClientShaped(Items))
           => /\ Len(output.rows) = Len(Items)
              /\ \A i \in 1..Len(Items) : ShowsTransaction(output.rows[i], Items[i])
    /\ (stage = "clientpdf" /\ ClientShaped(Items))
           => /\ Len(AllRows(output.tables)) = Len(Items)
              /\ \A i \in 1..Len(Items) :
                    Cardinality({w \in 1..Len(output.tables) :
                        \E k \in 1..Len(output.tables[w].rows) :
                            /\ output.tables[w].week = GetWeekOfMonth(Items[i].date)
                            /\ ShowsTransaction(output.tables[w].rows[k], Items[i])}) = 1

\* the ranking a run computed: the names of its top categories in order
HasRanking ==
    \/ FallbackReturned
    \/ stage = "stats" /\ ~output.threw

Ranking ==
    IF stage = "fallback" THEN [i \in 1..Len(output.top) |-> output.top[i].category]
    ELSE [i \in 1..Len(output.topCategories) |-> output.topCategories[i][1]]

\* the position of the first transaction of the category in the list
FirstPos(items, c) ==
    CHOOSE i \in 1..Len(items) :
        /\ CategoryKey(items[i]) = c
        /\ \A j \in 1..(i - 1) : CategoryKey(items[j]) # c

\* C18 as stated: in the top-3 ranking, categories with equal sums stand in the
\* order of their first transactions in the list, whatever the names are.
C18_TiesInInputOrder ==
    HasRanking =>
        \A i, j \in 1..Len(Ranking) :
            (i < j /\ CategorySum(Items, Ranking[i]) = CategorySum(Items, Ranking[j]))
                => FirstPos(Items, Ranking[i]) < FirstPos(Items, Ranking[j])

\* C18 amended: among listed categories with equal sums, names that are array
\* indices ("7", "10") stand before all other names, in ascending numeric
\* order among themselves; the other names stand in the order of their first
\* transactions in the list.
C18_TiesIndexNamesFirst ==
    HasRanking =>
        \A i, j \in 1..Len(Ranking) :
            (i < j /\ CategorySum(Items, Ranking[i]) = CategorySum(Items, Ranking[j]))
                => IF Ranking[j] \in IndexKeys
                   THEN /\ Ranking[i] \in IndexKeys
                        /\ IndexVal(Ranking[i]) < IndexVal(Ranking[j])
                   ELSE \/ Ranking[i] \in IndexKeys
                        \/ FirstPos(Items, Ranking[i]) < FirstPos(Items, Ranking[j])

\* "Food" came first in the list, "10" and "7" after it with the same sum; the
\* fallback summary lists "7", "10", "Food"
C18_Witness ==
    /\ FallbackReturned
    /\ Len(Items) = 3
    /\ CategoryKey(Items[1]) = "Food"
    /\ CategoryKey(Items[2]) = "10"
    /\ CategoryKey(Items[3]) = "7"
    /\ Ranking = <<"7", "10", "Food">>

\* C19: the live path and the fallback path compute the same statistics: for
\* every list the fallback summarises, its total and its top-3 ranking (names,
\* order, sums) are the totalAmount and topCategories the generate-insights
\* handler computes from the same list for its prompt and metadata.
C19_FallbackStatisticsAreTheHandlers ==
    FallbackReturned =>
        LET live == InsightStats(Items) IN
        /\ ~live.threw
        /\ output.total = ToFixed2(live.totalAmount)
        /\ Len(output.top) = Len(live.topCategories)
        /\ \A i \in 1..Len(output.top) :
              /\ output.top[i].category = live.topCategories[i][1]
              /\ output.top[i].amount = ToFixed2(live.topCategories[i][2])

\* a fallback summary of a list with more than three categories
C19_Witness ==
    /\ FallbackReturned
    /\ Cardinality(CategoriesOf(Items)) = 4
    /\ Len(output.top) = 3
    /\ output.top[1].category = InsightStats(Items).topCategories[1][1]

IsExample ==
    /\ input.transactions.kind = "array"
    /\ Len(Items) = 2
    /\ Items[1].amount = 1250 /\ Items[1].category = "Food"
    /\ Items[2].amount = 4000 /\ Items[2].category = "Rent"

\* s is n tenths printed with one decimal, n the nearest to 1000 * part / whole
IsShareOf(s, part, whole) ==
    \E n \in 0..1000 :
        /\ s = Digits(n \div 10) \o <<".">> \o <<DigitChars[(n % 10) + 1]>>
        /\ 2 * (n * whole - 1000 * part) <= whole
        /\ 2 * (1000 * part - n * whole) <= whole

\* C9: for [{amount:12.50,category:"Food"},{amount:40,category:"Rent"}] the
\* fallback summary reports total "52.50" and ranks "Rent" first at 76.2%; and
\* every listed category's share is its sum over the total, times 100, rounded
\* to one decimal.
C9_FallbackExampleAndShares ==
    FallbackReturned =>
        /\ IsExample =>
              /\ output.total = <<"5", "2", ".", "5", "0">>
              /\ output.top[1].category = "Rent"
              /\ output.top[1].share = <<"7", "6", ".", "2">>
        /\ \A i \in 1..Len(output.top) :
              IsShareOf(output.top[i].share,
                        CategorySum(Items, output.top[i].category),
                        SumAmounts(Items))

\* the fallback summary of the example list
C9_Witness ==
    /\ FallbackReturned
    /\ IsExample
    /\ output.top[1].share = <<"7", "6", ".", "2">>


-----------------------------------------------------------------------------
(* Statements of any user on `transactions` *)

InitPureIdle ==
    /\ stage = "data"
    /\ input = Body(NoField, NoTotal, "")
    /\ output = NoAnalysis

InitTable ==
    /\ InitServerIdle
    /\ InitPureIdle
    /\ InitDataIdle
    /\ InitClientIdle

NextTable ==
    \/ DbSelect
    \/ DbInsert
    \/ DbUpdate
    \/ DbDelete

SpecTable == InitTable /\ [][NextTable]_vars

\* the rows the last statement read, created, changed or removed
Touched ==
    lastOp.read \cup lastOp.created \cup lastOp.removed
        \cup lastOp.changedFrom \cup lastOp.changedTo

\* C12: every row of `transactions` has one owner and only the owner reaches it:
\* whatever statements the users ran before, a select, insert, update or delete
\* of user u reads, creates, changes and removes only rows whose user_id is u,
\* also when the statement filters on no user_id.
C12_OnlyTheOwnerReachesARow ==
    /\ \A row \in transactionsTable : row.user_id \in Users
    /\ \A row \in Touched : row.user_id = lastOp.user

\* u2 deletes by the id of a row of u1, which stays
C12_Witness ==
    /\ lastOp.cmd = "DELETE"
    /\ lastOp.user = "u2"
    /\ lastOp.removed = {}
    /\ \E row \in transactionsTable : row.user_id = "u1" /\ row.id \in lastOp.filter


-----------------------------------------------------------------------------
(* handleBudgetSubmit: budgets upserted from several tabs *)

\* what the user typed into the budget form
BudgetInputs == {"", "abc", "0", "100", "250"}

\* isNaN(budgetInput)
IsNaN(text) == text = "abc"

\* parseFloat(budgetInput), of a text that is a number
ParseFloat(text) == IF text = "100" THEN 100 ELSE IF text = "250" THEN 250 ELSE 0

\* !budgetInput || isNaN(budgetInput) || parseFloat(budgetInput) <= 0
InvalidBudget(text) == text = "" \/ IsNaN(text) \/ ParseFloat(text) <= 0

BudgetRow(userId, period, amount) ==
    [user_id |-> userId, month |-> period[1], year |-> period[2], amount |-> amount]

\* the rows of the table that hold the budget of the user for the period
BudgetsOf(table, userId, period) ==
    {row \in BagToSet(table) : /\ row.user_id = userId
                               /\ row.month = period[1]
                               /\ row.year = period[2]}

\* how many rows the table holds for the user and the period
BudgetCount(table, userId, period) ==
    BagCardinality([row \in BudgetsOf(table, userId, period) |-> table[row]])

\* a plain insert, which never looks for the row of the period
UpsertAsInsert(table, hasKey, row) ==
    IF hasKey /\ BudgetsOf(table, row.user_id, <<row.month, row.year>>) # {}
    THEN [error |-> TRUE, replaced |-> FALSE, table |-> table]
    ELSE [error |-> FALSE, replaced |-> FALSE, table |-> table (+) SetToBag({row})]

\* .upsert(row, { onConflict: 'user_id,month,year' }): insert ... on conflict
\* (user_id, month, year) do update; without a unique key on these columns the
\* statement is refused
Upsert(table, hasKey, row) ==
    IF ~hasKey THEN [error |-> TRUE, replaced |-> FALSE, table |-> table]
    ELSE LET same == BudgetsOf(table, row.user_id, <<row.month, row.year>>)
             rest == [r \in BagToSet(table) \ same |-> table[r]]
         IN  [error |-> FALSE, replaced |-> same # {},
              table |-> rest (+) SetToBag({row})]

\* the form is submitted: validation, then the await of supabase.auth.getUser
SubmitBudget(t) ==
    /\ tab[t].pc = "idle"
    /\ \E text \in BudgetInputs :
          tab' = [tab EXCEPT ![t] =
                     IF InvalidBudget(text)
                     THEN [NoTab EXCEPT !.outcome = "invalid"]
                     ELSE [NoTab EXCEPT !.pc = "auth", !.amount = ParseFloat(text)]]
    /\ UNCHANGED <<transactionsTable, budgetsTable, budgetKey, lastOp, lastBudget,
                   serverVars, pureVars, clientVars>>

\* getUser settles: no user throws; otherwise the clock is read and the upsert
\* is sent
BudgetUserSettles(t) ==
    /\ tab[t].pc = "auth"
    /\ \E u \in Users \cup {Null}, period \in Periods :
          tab' = [tab EXCEPT ![t] =
                     IF u = Null THEN [NoTab EXCEPT !.outcome = "error"]
                     ELSE [@ EXCEPT !.pc = "upsert", !.user = u, !.month = period]]
    /\ UNCHANGED <<transactionsTable, budgetsTable, budgetKey, lastOp, lastBudget,
                   serverVars, pureVars, clientVars>>

\* the backend runs the upsert, or refuses the request, and the tab gets the
\* answer
BudgetUpsertSettles(t) ==
    /\ tab[t].pc = "upsert"
    /\ BagCardinality(budgetsTable) < MaxBudgetRows
    /\ \E refused \in BOOLEAN :
          LET row == BudgetRow(tab[t].user, tab[t].month, tab[t].amount)
              done == IF refused
                      THEN [error |-> TRUE, replaced |-> FALSE, table |-> budgetsTable]
                      ELSE Upsert(budgetsTable, budgetKey, row)
          IN  /\ budgetsTable' = done.table
              /\ lastBudget' = IF done.error THEN lastBudget
                               ELSE [lastBudget EXCEPT
                                        ![<<tab[t].user, tab[t].month>>] = tab[t].amount]
              /\ tab' = [tab EXCEPT ![t] =
                            [NoTab EXCEPT !.outcome =
                                IF done.error THEN "error"
                                ELSE IF done.replaced THEN "replaced" ELSE "saved"]]
    /\ UNCHANGED <<transactionsTable, budgetKey, lastOp, serverVars, pureVars, clientVars>>

InitBudget ==
    /\ InitServerIdle
    /\ InitPureIdle
    /\ transactionsTable = {}
    /\ budgetsTable = EmptyBag
    /\ budgetKey \in BOOLEAN
    /\ lastOp = NoOp
    /\ tab = [t \in Tabs |-> NoTab]
    /\ lastBudget = [k \in Users \X Periods |-> 0]
    /\ InitClientIdle

NextBudget ==
    \E t \in Tabs :
        \/ SubmitBudget(t)
        \/ BudgetUserSettles(t)
        \/ BudgetUpsertSettles(t)

SpecBudget == InitBudget /\ [][NextBudget]_vars

\* C13: at most one budget per (owner, month, year): after any submissions,
\* repeated and concurrent ones of one user in one month included, a (user,
\* month, year) has no budget row until a submission succeeded for it, and from
\* then on exactly one, holding the amount of the last submission that succeeded.
C13_OneBudgetPerUserAndMonth ==
    \A u \in Users, period \in Periods :
        /\ BudgetCount(budgetsTable, u, period) <= 1
        /\ (BudgetCount(budgetsTable, u, period) = 0) <=> (lastBudget[<<u, period>>] = 0)
        /\ \A row \in BudgetsOf(budgetsTable, u, period) :
              row.amount = lastBudget[<<u, period>>]

\* a submission found the budget of its month and replaced it while another
\* tab's upsert for the same user and month is still on its way
C13_Witness ==
    \E t, o \in Tabs :
        /\ tab[t].outcome = "replaced"
        /\ tab[o].pc = "upsert"
        /\ BudgetCount(budgetsTable, tab[o].user, tab[o].month) = 1
        /\ \E row \in BudgetsOf(budgetsTable, tab[o].user, tab[o].month) :
              row.amount # tab[o].amount


-----------------------------------------------------------------------------
(* The prompt generate-insights sends to the provider *)

\* transactions.slice(0, 20)
PromptLimit == 20

NoCount == 0 - 1

\* the transactions written into the prompt and the count the request reports:
\* JSON.stringify(transactions) and no count (v1); the first 20 as JSON, with
\* meta.transactionCount (v2); a line for each transaction, with 'Number of
\* Transactions' and metadata.totalTransactions (v3)
Prompt(v, items) ==
    IF v = "v1" THEN [lines |-> items, count |-> NoCount]
    ELSE IF v = "v2" THEN [lines |-> Slice0(items, PromptLimit), count |-> Len(items)]
    ELSE [lines |-> items, count |-> Len(items)]

\* lists of one well-formed transaction repeated, of every length up to the bound
PromptLists ==
    {[i \in 1..n |-> t] :
        n \in 0..MaxPromptTx,
        t \in {Tx(1250, "Food", Undefined, Day(3), "Lunch"),
               Tx(4000, "Rent", Undefined, Day(12), "")}}

InitPrompt ==
    /\ variant \in Variants
    /\ runtime = "hang"
    /\ nodeEnv = "production"
    /\ serverUp = TRUE
    /\ pc = [r \in Reqs |-> "idle"]
    /\ req = [r \in Reqs |-> NoReq]
    /\ authReply = [r \in Reqs |-> "none"]
    /\ aiReply = [r \in Reqs |-> "none"]
    /\ user = [r \in Reqs |-> Undefined]
    /\ handlerRan = [r \in Reqs |-> FALSE]
    /\ calls = [r \in Reqs |-> <<>>]
    /\ resp = [r \in Reqs |-> NoResp]
    /\ stage = "input"
    /\ input \in {Body(ArrayOf(l), NoTotal, "") : l \in PromptLists \ {<<>>}}
    /\ output = NoAnalysis
    /\ InitDataIdle
    /\ InitClientIdle

\* the handler builds its prompt from the list
ApplyPrompt ==
    /\ stage = "input"
    /\ stage' = "prompt"
    /\ output' = Prompt(variant, input.transactions.items)
    /\ UNCHANGED <<input, serverVars, dataVars, clientVars>>

NextPrompt == ApplyPrompt

SpecPrompt == InitPrompt /\ [][NextPrompt]_vars

\* C20: the prompt holds a bounded number of raw transactions: for every length
\* of the list, at most 20 of its transactions are written into the prompt,
\* while the count the request reports is the full length of the list.
C20_PromptHoldsBoundedTransactions ==
    stage = "prompt" =>
        /\ Len(output.lines) <= PromptLimit
        /\ variant # "v1" => output.count = Len(Items)

-----------------------------------------------------------------------------
(* Properties of the token gate's continuation *)

\* C21: on successful verification the gate attaches the identity the provider
\* resolved for the token to the request and continues to the handler exactly
\* once, only after the provider call has completed; it never both rejects and
\* continues for the same request.
C21_GateAttachesAndContinuesOnce ==
    \A r \in Reqs :
        /\ authReply[r] = "user" =>
              /\ user[r] = "u1"
              /\ handlerRan[r]
        /\ handlerRan[r] =>
              /\ Len(calls[r]) >= 2
              /\ calls[r][1] = "getUser"
              /\ calls[r][2] = "getUser:ok"
              /\ CountOf(calls[r], "getUser:ok") = 1
              /\ CountOf(calls[r], "getUser:failed") = 0
              /\ resp[r].status # 401
        /\ resp[r].status = 401 => ~handlerRan[r] /\ user[r] = Undefined

\* a verified request whose handler ran and answered 200
C21_Witness ==
    \E r \in Reqs :
        /\ authReply[r] = "user"
        /\ handlerRan[r]
        /\ user[r] = "u1"
        /\ Answered(r)
        /\ resp[r].status = 200

\* C22: whenever the logic of a protected handler runs, the request's user is
\* an identity: for no reply of the provider and no shape of the Authorization
\* header does the handler run with req.user null or undefined.
C22_HandlerRunsWithIdentity ==
    \A r \in Reqs :
        handlerRan[r] => user[r] \notin {"null", Undefined}

-----------------------------------------------------------------------------
(* One request handled alone, every pending call settling in the end *)

SpecSoloFair ==
    /\ SpecSolo
    /\ WF_vars(AuthSettles(1))
    /\ WF_vars(AiSettles(1))

\* C23: every authenticated request to generate-insights eventually receives its
\* response, for every request body: when the statistics throw on a malformed
\* element the error path still completes and a response is sent, the request
\* is not left unanswered.
C23_AuthenticatedInsightsIsAnswered ==
    \A r \in Reqs : (handlerRan[r] /\ Insights(r)) ~> Answered(r)

-----------------------------------------------------------------------------
(* The Dashboard page, its fetches settling in any order *)

InitDash ==
    /\ InitServerIdle
    /\ InitPureIdle
    /\ InitDataIdle
    /\ reports = NoReports
    /\ page = NoPage
    /\ auth = NoAuth
    /\ dash \in {[NoDash EXCEPT !.which = w, !.firstDay = f, !.mounted = TRUE] :
                    w \in Dashboards, f \in {0, 3, 6}}

NextDash ==
    \/ DashFetchTransactions
    \/ DashTransactionsSettle
    \/ DashFetchBudget
    \/ DashBudgetSettle

SpecDash == InitDash /\ [][NextDash]_vars

\* C24: in the budget-aware Dashboard, after any sequence of transaction and
\* budget fetch completions, once the effects have run, monthlyTotal is the sum
\* of the amounts of the current-month transactions of the list fetched last,
\* also when there is no budget for the month and when the list became empty.
C24_MonthlyTotalFollowsTheList ==
    dash.which = "budget" =>
        dash.monthlyTotal = DashTotal(MonthlyTransactions(dash.transactions))

\* the amounts of the current-month transactions that fall into bucket k
RECURSIVE BucketSum(_, _, _)
BucketSum(items, k, firstDay) ==
    IF items = <<>> THEN 0
    ELSE (IF Head(items).inMonth
             /\ Min(DashWeekOfMonth(Head(items).day, firstDay), 5) = k
          THEN Head(items).amount ELSE 0)
            + BucketSum(Tail(items), k, firstDay)

\* processData has run on the list the state holds
Processed ==
    /\ dash.weeklyData # NoWeeklyData
    /\ dash.which = "budget" => dash.currentBudget # Null /\ dash.transactions # <<>>

\* C29: in the Dashboard every current-month transaction is counted in exactly
\* one of the five weekly buckets Week 1..Week 5, week numbers above 5 folded
\* into Week 5, so the five weekly amounts add up to monthlyTotal; and the week
\* number of any day of any month lies between 1 and 6.
C29_WeeksPartitionTheMonth ==
    /\ \A day \in 1..31, firstDay \in Weekdays :
          DashWeekOfMonth(day, firstDay) \in 1..6
    /\ dash.weeklyData # NoWeeklyData =>
          /\ DOMAIN dash.weeklyData = WeekKeys
          /\ dash.weeklyData[1] + dash.weeklyData[2] + dash.weeklyData[3]
                + dash.weeklyData[4] + dash.weeklyData[5] = dash.monthlyTotal
    /\ Processed =>
          \A k \in WeekKeys :
              dash.weeklyData[k] = BucketSum(dash.transactions, k, dash.firstDay)

\* a transaction of the 31st in a month that starts on a Saturday: week 6,
\* counted in Week 5
C29_Witness ==
    /\ Processed
    /\ \E i \in 1..Len(dash.transactions) :
          /\ dash.transactions[i].inMonth
          /\ DashWeekOfMonth(dash.transactions[i].day, dash.firstDay) = 6
    /\ dash.weeklyData[5] > 0
    /\ dash.weeklyData[5] = dash.monthlyTotal

-----------------------------------------------------------------------------
(* The Reports page, mounted, its calls settling in any order *)

\* the mount effect has called fetchTransactions for the month of the clock
InitReports ==
    /\ InitServerIdle
    /\ InitPureIdle
    /\ InitDataIdle
    /\ dash = NoDash
    /\ page = NoPage
    /\ auth = NoAuth
    /\ reports \in {StartFetch([NoReports EXCEPT !.mounted = TRUE, !.selected = p]) :
                       p \in Periods}

NextReports ==
    \/ ChangePeriod
    \/ FetchSettles
    \/ GenerateSummary
    \/ SummarySettles

SpecReports == InitReports /\ [][NextReports]_vars

NoChangeWhileFetching ==
    [][reports'.selected # reports.selected =>
          CountAll(reports.fetches, Periods) = 0]_vars

\* C26: the summary shown under 'AI Summary for <selected month year>' was
\* generated from the transactions of that month: after any interleaving of
\* generateSummary, its response and month changes, a summary generated for
\* one month is never shown, or exported, under another.
C26_SummaryIsOfTheSelectedMonth ==
    (Rendered(reports) /\ reports.summary.kind = "text") =>
        reports.summary.of = reports.selected

-----------------------------------------------------------------------------
(* The Transactions page: handleSubmit and handleBudgetSubmit *)

\* handleSubmit with the upload through listBuckets and createBucket
\* ("buckets") and the one that uploads directly ("plain")
PageVariants == {"buckets", "plain"}

\* what the amount field can hold
FormAmounts == {"", "abc", "100"}

\* what the category selector can hold
FormCategories == {"", "3"}

\* a validation that looks at the amount only
FormErrorAmountOnly(form) ==
    IF form.amount = "" \/ IsNaN(form.amount)
    THEN "Please enter a valid amount"
    ELSE Null

\* the validation of handleSubmit: the message it sets, or none
FormError(form) ==
    IF form.amount = "" \/ IsNaN(form.amount)
    THEN "Please enter a valid amount"
    ELSE IF form.category_id = "" THEN "Please select a category"
    ELSE Null

\* how the upload block can end: listBuckets gives no list, createBucket or
\* upload reports an error, or the file is stored
UploadOutcomes(which) ==
    IF which = "buckets" THEN {"listFailed", "bucketFailed", "uploadFailed", "ok"}
    ELSE {"uploadFailed", "ok"}

\* the storage calls made up to that end
UploadCalls(which, outcome) ==
    IF which = "plain" THEN <<"upload">>
    ELSE IF outcome = "listFailed" THEN <<"listBuckets">>
    ELSE IF outcome = "bucketFailed" THEN <<"listBuckets", "createBucket">>
    ELSE <<"listBuckets", "upload">>

UploadMessage == "Receipt upload failed. Transaction will be saved without receipt."

\* handleSubmit has finished: finally, and its locals are gone
Finished(p) ==
    [p EXCEPT !.isUploading = FALSE, !.pc = "idle", !.submitted = EmptyForm,
              !.upload = "none", !.calls = <<>>]

\* handleSubmit ends in its catch block: the error is shown
Failed(p, message) == Finished([p EXCEPT !.error = message])

\* an upload block without its own catch: the error ends handleSubmit
AfterUploadUncaught(p, outcome) ==
    IF outcome = "ok"
    THEN [p EXCEPT !.pc = "insert", !.calls = Append(@, "insert:url")]
    ELSE Failed(p, "failed")

\* after the upload block: its catch keeps the error from leaving, receiptUrl
\* stays null, and the insert is sent
AfterUpload(p, outcome) ==
    IF outcome = "ok"
    THEN [p EXCEPT !.pc = "insert", !.calls = Append(@, "insert:url")]
    ELSE [p EXCEPT !.pc = "insert", !.calls = Append(@, "insert:null"),
                   !.error = IF p.which = "buckets" THEN UploadMessage ELSE @]

\* the user edits the transaction form
EditForm ==
    /\ page.mounted
    /\ \E a \in FormAmounts, c \in FormCategories, f \in BOOLEAN :
          page' = [page EXCEPT !.formData = [amount |-> a, category_id |-> c, receipt |-> f],
                               !.last = "none"]
    /\ UNCHANGED <<serverVars, pureVars, dataVars, dash, reports, auth>>

\* the user edits the budget form
EditBudget ==
    /\ page.mounted
    /\ \E text \in BudgetInputs \ {"250"} :
          page' = [page EXCEPT !.budgetInput = text, !.last = "none"]
    /\ UNCHANGED <<serverVars, pureVars, dataVars, dash, reports, auth>>

\* handleSubmit up to its await of getUser; the button is disabled while
\* isUploading
HandleSubmit ==
    /\ page.mounted
    /\ ~page.isUploading
    /\ page.inserts < MaxInserts
    /\ page' =
          IF FormError(page.formData) # Null
          THEN [page EXCEPT !.error = FormError(page.formData), !.last = "submit"]
          ELSE [page EXCEPT !.error = Null, !.isUploading = TRUE, !.pc = "user",
                            !.submitted = page.formData, !.upload = "none",
                            !.calls = <<"getUser">>, !.last = "submit"]
    /\ UNCHANGED <<serverVars, pureVars, dataVars, dash, reports, auth>>

\* getUser settles: no user throws; with a receipt the upload block starts,
\* without one the insert is sent
SubmitUserSettles ==
    /\ page.pc = "user"
    /\ \E signedIn \in BOOLEAN :
          page' =
             [(IF ~signedIn THEN Failed(page, "failed")
               ELSE IF page.submitted.receipt THEN [page EXCEPT !.pc = "upload"]
               ELSE [page EXCEPT !.pc = "insert", !.calls = Append(@, "insert:null")])
              EXCEPT !.last = "none"]
    /\ UNCHANGED <<serverVars, pureVars, dataVars, dash, reports, auth>>

\* the upload block ends
SubmitUploadSettles ==
    /\ page.pc = "upload"
    /\ \E outcome \in UploadOutcomes(page.which) :
          page' =
             [AfterUpload([page EXCEPT !.upload = outcome,
                                       !.calls = @ \o UploadCalls(page.which, outcome)],
                          outcome)
              EXCEPT !.last = "none"]
    /\ UNCHANGED <<serverVars, pureVars, dataVars, dash, reports, auth>>

\* the insert settles: its error ends handleSubmit, otherwise the form is
\* reset and the lists are fetched again
SubmitInsertSettles ==
    /\ page.pc = "insert"
    /\ \E failed \in BOOLEAN :
          page' =
             [(IF failed THEN Failed(page, "failed")
               ELSE [page EXCEPT !.formData = EmptyForm, !.inserts = @ + 1,
                                 !.pc = "refresh",
                                 !.calls = Append(@, "fetchTransactions")])
              EXCEPT !.last = "none"]
    /\ UNCHANGED <<serverVars, pureVars, dataVars, dash, reports, auth>>

\* the refresh settles: fetchTransactions catches its own error; finally
SubmitRefreshSettles ==
    /\ page.pc = "refresh"
    /\ \E failed \in BOOLEAN :
          page' = Finished([page EXCEPT
                      !.transactions = IF failed THEN @ ELSE page.inserts,
                      !.error = IF failed THEN "failed" ELSE Null,
                      !.last = "none"])
    /\ UNCHANGED <<serverVars, pureVars, dataVars, dash, reports, auth>>

\* handleBudgetSubmit up to its await of getUser
HandleBudgetSubmit ==
    /\ page.mounted
    /\ page.budgetFlights < MaxFetches
    /\ page' =
          IF InvalidBudget(page.budgetInput)
          THEN [page EXCEPT !.error = "Please enter a valid budget amount",
                            !.last = "budget"]
          ELSE [page EXCEPT !.budgetFlights = @ + 1, !.last = "budget"]
    /\ UNCHANGED <<serverVars, pureVars, dataVars, dash, reports, auth>>

\* its getUser and upsert settle: the saved row (the one amount the form can
\* hold) becomes currentBudget and the form is cleared, or the error is shown
BudgetSettles ==
    /\ page.budgetFlights > 0
    /\ \E failed \in BOOLEAN :
          page' =
             IF failed
             THEN [page EXCEPT !.budgetFlights = @ - 1, !.error = "failed",
                               !.last = "none"]
             ELSE [page EXCEPT !.budgetFlights = @ - 1, !.error = Null,
                               !.currentBudget = ParseFloat("100"),
                               !.budgetInput = "", !.last = "none"]
    /\ UNCHANGED <<serverVars, pureVars, dataVars, dash, reports, auth>>

InitPage ==
    /\ InitServerIdle
    /\ InitPureIdle
    /\ InitDataIdle
    /\ dash = NoDash
    /\ reports = NoReports
    /\ auth = NoAuth
    /\ page \in {[NoPage EXCEPT !.mounted = TRUE, !.which = w] : w \in PageVariants}

NextPage ==
    \/ EditForm
    \/ EditBudget
    \/ HandleSubmit
    \/ SubmitUserSettles
    \/ SubmitUploadSettles
    \/ SubmitInsertSettles
    \/ SubmitRefreshSettles
    \/ HandleBudgetSubmit
    \/ BudgetSettles

SpecPage == InitPage /\ [][NextPage]_vars

\* C27: in handleSubmit a failure of the receipt upload (bucket creation or
\* upload error) never prevents the transaction from being saved: the insert is
\* still attempted exactly once, with receipt_url null; and whatever the
\* outcome, isUploading is false again when handleSubmit has finished.
C27_UploadFailureStillInserts ==
    /\ [][(page.pc = "upload" /\ page'.pc # "upload") =>
            /\ page'.pc = "insert"
            /\ page'.upload # "ok" =>
                  /\ CountOf(page'.calls, "insert:null") = 1
                  /\ CountOf(page'.calls, "insert:url") = 0]_vars
    /\ [](/\ page.pc = "idle" => ~page.isUploading
          /\ page.pc # "idle" => page.isUploading
          /\ CountOf(page.calls, "insert:null") + CountOf(page.calls, "insert:url") <= 1)

\* createBucket failed and the insert without receipt succeeded: the lists
\* are being fetched again
C27_Witness ==
    /\ page.upload = "bucketFailed"
    /\ page.pc = "refresh"
    /\ CountOf(page.calls, "insert:null") = 1
    /\ page.inserts > 0

\* C28: a client-side validation failure writes nothing: handleBudgetSubmit
\* with an empty, non-numeric or non-positive amount, and handleSubmit with an
\* empty or non-numeric amount or no category, set an error message and return
\* without a backend call, and leave transactions, currentBudget and the form
\* data unchanged.
C28_InvalidSubmitWritesNothing ==
    [][/\ (/\ page'.last = "submit"
           /\ \/ page.formData.amount \in {"", "abc"}
              \/ page.formData.category_id = "")
          => /\ page'.error # Null
             /\ page' = [page EXCEPT !.error = page'.error, !.last = "submit"]
       /\ (/\ page'.last = "budget"
           /\ page.budgetInput \in {"", "abc", "0"})
          => /\ page'.error # Null
             /\ page' = [page EXCEPT !.error = page'.error, !.last = "budget"]
      ]_vars

\* a submit of a form without a category was refused: the message is shown and
\* the form still holds what was typed
C28_Witness ==
    /\ page.last = "submit"
    /\ page.formData.amount = "100"
    /\ page.formData.category_id = ""
    /\ page.error = "Please select a category"
    /\ page.pc = "idle"
    /\ page.calls = <<>>

-----------------------------------------------------------------------------
(* The application loading, with or without a persisted session *)

InitAuth ==
    /\ InitServerIdle
    /\ InitPureIdle
    /\ InitDataIdle
    /\ dash = NoDash
    /\ reports = NoReports
    /\ page = NoPage
    /\ auth \in {[NoAuth EXCEPT !.session = s, !.route = r] :
                    s \in Users \cup {Null}, r \in Routes}

NextAuth ==
    \/ AuthEffect
    \/ AuthStateChange
    \/ SignIn
    \/ SignOut
    \/ GoTo

SpecAuth == InitAuth /\ [][NextAuth]_vars

\* C30: on initial load with a valid persisted session a protected route does
\* not redirect to /login: loading stays true, and no children are rendered,
\* until the session's user has been resolved; and for a user without a session
\* protected content is never rendered.
C30_LoadKeepsSignedInUserOnRoute ==
    /\ ~auth.bounced
    /\ auth.shown \in Protected => auth.user # Null

=============================================================================
